---- MODULE Spec2Model ----
(***************************************************************************)
(* Model of the RustyGear entity-component-system core:                    *)
(*   - EntityAllocator (entity.rs): generational index allocator           *)
(*   - ComponentSet    (component.rs): generation-checked slot array       *)
(*   - EntityComponentSystem (ecs.rs): allocator + stores + queues         *)
(*   - SystemManager   (systems/system.rs): matching sets and the tick     *)
(*                                                                         *)
(* Rust indices are 0-based; a Vec v is modelled as a sequence s with      *)
(* v[i] = s[i + 1].                                                        *)
(***************************************************************************)
EXTENDS Integers, Sequences, FiniteSets

\* ------------------------------------------------------------------ bounds
\* Capacity passed to EntityAllocator::new / ComponentSet::new.
max_size == 2
\* Cap on the u64 generation counter: a slot is not recycled past it.
MaxGen == 2
\* Cap on the number of add_entity / remove_entity calls of a run.
MaxRequests == 5

\* ------------------------------------------------------------- vocabulary
None == "None"
NoPanic == "none"
Values == {"v1", "v2"}

EntityId(i, g) == [index |-> i, generation |-> g]
\* Ids a caller can name: every in-range index (and one index past the
\* range), every generation up to the cap.
Ids == {EntityId(i, g) : i \in 0 .. (max_size - 1), g \in 0 .. MaxGen}
AnyIds == {EntityId(i, g) : i \in 0 .. max_size, g \in 0 .. MaxGen}

\* --------------------------------------------------------- EntityAllocator
\* entries: Seq of generations; free: Seq of indices (a stack, top = last);
\* active_entities: set of EntityId.
EntityAllocator_new ==
    [entries |-> << >>, free |-> << >>, active_entities |-> {}]

\* Mutant: add_new_entry with the capacity test off by one.
add_new_entry_off_by_one(a) ==
    IF Len(a.entries) > max_size
    THEN [a |-> a, id |-> None, panic |-> "capacity"]
    ELSE [a |-> [a EXCEPT !.entries = Append(@, 0)],
          id |-> EntityId(Len(a.entries), 0),
          panic |-> NoPanic]

\* Mutant: add_new_entry that starts the generation at one.
add_new_entry_gen_one(a) ==
    IF Len(a.entries) >= max_size
    THEN [a |-> a, id |-> None, panic |-> "capacity"]
    ELSE [a |-> [a EXCEPT !.entries = Append(@, 1)],
          id |-> EntityId(Len(a.entries), 1),
          panic |-> NoPanic]

\* Mutant: add_new_entry that wraps around to index 0 when the entries are
\* used up.
add_new_entry_wrap(a) ==
    IF Len(a.entries) >= max_size
    THEN [a |-> a, id |-> EntityId(Len(a.entries) % max_size, 0),
          panic |-> NoPanic]
    ELSE [a |-> [a EXCEPT !.entries = Append(@, 0)],
          id |-> EntityId(Len(a.entries), 0),
          panic |-> NoPanic]

add_new_entry(a) ==
    IF Len(a.entries) >= max_size
    THEN [a |-> a, id |-> None, panic |-> "capacity"]
    ELSE [a |-> [a EXCEPT !.entries = Append(@, 0)],
          id |-> EntityId(Len(a.entries), 0),
          panic |-> NoPanic]

\* Mutant: reuse_entry that forgets to bump the generation.
reuse_entry_no_bump(a) ==
    LET free_index == a.free[Len(a.free)]
    IN  [a |-> [a EXCEPT !.free = SubSeq(@, 1, Len(@) - 1)],
         id |-> EntityId(free_index, a.entries[free_index + 1]),
         panic |-> NoPanic]

\* Mutant: reuse_entry that restarts the generation at one.
reuse_entry_reset(a) ==
    LET free_index == a.free[Len(a.free)]
    IN  [a |-> [a EXCEPT !.free = SubSeq(@, 1, Len(@) - 1),
                         !.entries[free_index + 1] = 1],
         id |-> EntityId(free_index, 1),
         panic |-> NoPanic]

\* Mutant: reuse_entry that takes the index freed first.
reuse_entry_fifo(a) ==
    LET free_index == a.free[1]
        generation == a.entries[free_index + 1] + 1
    IN  [a |-> [a EXCEPT !.free = Tail(@),
                         !.entries[free_index + 1] = generation],
         id |-> EntityId(free_index, generation),
         panic |-> NoPanic]

reuse_entry(a) ==
    LET free_index == a.free[Len(a.free)]
        generation == a.entries[free_index + 1] + 1
    IN  [a |-> [a EXCEPT !.free = SubSeq(@, 1, Len(@) - 1),
                         !.entries[free_index + 1] = generation],
         id |-> EntityId(free_index, generation),
         panic |-> NoPanic]

\* Mutant: allocate that never looks at the free list.
allocate_never_reuse(a) ==
    LET r == add_new_entry(a)
    IN  IF r.panic # NoPanic THEN r
        ELSE IF r.id \in r.a.active_entities
        THEN [r EXCEPT !.panic = "duplicate"]
        ELSE [r EXCEPT !.a.active_entities = @ \cup {r.id}]

allocate(a) ==
    LET r == IF a.free = << >> THEN add_new_entry(a) ELSE reuse_entry(a)
    IN  IF r.panic # NoPanic THEN r
        ELSE IF r.id \in r.a.active_entities
        THEN [r EXCEPT !.panic = "duplicate"]
        ELSE [r EXCEPT !.a.active_entities = @ \cup {r.id}]

\* Mutant: deallocate that matches the live id by index alone.
deallocate_by_index(a, gen_index) ==
    IF \A e \in a.active_entities : e.index # gen_index.index
    THEN [a |-> a, panic |-> "not_live"]
    ELSE [a |-> [a EXCEPT
                   !.active_entities =
                       {e \in @ : e.index # gen_index.index},
                   !.free = Append(@, gen_index.index)],
          panic |-> NoPanic]

\* Mutant: deallocate that does not remove the id from the live set.
deallocate_keep_live(a, gen_index) ==
    IF gen_index \notin a.active_entities
    THEN [a |-> a, panic |-> "not_live"]
    ELSE [a |-> [a EXCEPT !.free = Append(@, gen_index.index)],
          panic |-> NoPanic]

\* Mutant: deallocate that pushes the index on the free list before it
\* tests whether the id is live.
deallocate_push_first(a, gen_index) ==
    IF gen_index \notin a.active_entities
    THEN [a |-> [a EXCEPT !.free = Append(@, gen_index.index)],
          panic |-> "not_live"]
    ELSE [a |-> [a EXCEPT !.active_entities = @ \ {gen_index},
                          !.free = Append(@, gen_index.index)],
          panic |-> NoPanic]

deallocate(a, gen_index) ==
    IF gen_index \notin a.active_entities
    THEN [a |-> a, panic |-> "not_live"]
    ELSE [a |-> [a EXCEPT !.active_entities = @ \ {gen_index},
                          !.free = Append(@, gen_index.index)],
          panic |-> NoPanic]

\* The generation cap: allocate is only taken while the slot it would
\* recycle stays within MaxGen.
WithinGenCap(a) ==
    a.free # << >> => a.entries[a.free[Len(a.free)] + 1] < MaxGen

\* ------------------------------------------------------------ ComponentSet
\* entries: function index -> Option<ArrayEntry>; the option is a sequence,
\* << >> for None and << [value, generation] >> for Some(entry).
NoEntry == << >>
Some(entry) == << entry >>
ComponentSet_new(n) == [i \in 0 .. (n - 1) |-> NoEntry]

\* Mutant: set that only fills an empty slot.
set_if_empty(cs, gen_index, value) ==
    IF cs[gen_index.index] # NoEntry THEN cs
    ELSE [cs EXCEPT ![gen_index.index] =
             Some([value |-> value, generation |-> gen_index.generation])]

\* Mutant: set that keeps the generation of an occupied slot.
set_keep_generation(cs, gen_index, value) ==
    IF cs[gen_index.index] # NoEntry
    THEN [cs EXCEPT ![gen_index.index] =
             Some([value |-> value,
                   generation |-> cs[gen_index.index][1].generation])]
    ELSE [cs EXCEPT ![gen_index.index] =
             Some([value |-> value, generation |-> gen_index.generation])]

\* Mutant: set that also empties the slot after the one it writes.
set_clobber_next(cs, gen_index, value) ==
    [i \in DOMAIN cs |->
        IF i = gen_index.index
        THEN Some([value |-> value, generation |-> gen_index.generation])
        ELSE IF i = (gen_index.index + 1) % max_size THEN NoEntry
        ELSE cs[i]]

set(cs, gen_index, value) ==
    [cs EXCEPT ![gen_index.index] =
        Some([value |-> value, generation |-> gen_index.generation])]

\* Mutant: get that ignores the generation.
get_any_generation(cs, gen_index) ==
    IF cs[gen_index.index] = NoEntry THEN None
    ELSE cs[gen_index.index][1].value

get(cs, gen_index) ==
    IF cs[gen_index.index] = NoEntry THEN None
    ELSE IF cs[gen_index.index][1].generation # gen_index.generation
    THEN None
    ELSE cs[gen_index.index][1].value

\* The value that the returned &mut T points to, or absent.
get_mut(cs, gen_index) ==
    IF cs[gen_index.index] = NoEntry THEN None
    ELSE IF cs[gen_index.index][1].generation # gen_index.generation
    THEN None
    ELSE cs[gen_index.index][1].value

\* Mutant: a clear that leaves an entry of another generation in place.
clear_same_generation(cs, gen_index) ==
    IF cs[gen_index.index] # NoEntry
       /\ cs[gen_index.index][1].generation # gen_index.generation
    THEN cs
    ELSE [cs EXCEPT ![gen_index.index] = NoEntry]

\* set(id, None) as called by clear_component: the slot becomes empty.
clear(cs, gen_index) == [cs EXCEPT ![gen_index.index] = NoEntry]

\* --------------------------------------------------- EntityComponentSystem
max_entities == max_size
Kinds == {"Transform", "Camera", "Controller", "Mesh"}
\* Order in which create_entity meets the keys of a prefab object
\* (serde_json's map iterates its keys in sorted order).
KeyOrder == << "Camera", "Controller", "Mesh", "Transform" >>

\* Resources::prefabs: the documents the asset provider loaded. A document
\* is a JSON object with top-level keys (some of which may fail to
\* deserialize into their kind), or not an object at all.
prefabs ==
    [player |-> [object |-> TRUE, malformed |-> {},
                 keys |-> {"Transform", "Controller", "Mesh"}],
     camera |-> [object |-> TRUE, malformed |-> {},
                 keys |-> {"Transform", "Camera"}],
     prop   |-> [object |-> TRUE, malformed |-> {},
                 keys |-> {"Transform", "Mesh", "Tag"}],
     broken |-> [object |-> TRUE, malformed |-> {"Transform"},
                 keys |-> {"Transform"}],
     scalar |-> [object |-> FALSE, malformed |-> {}, keys |-> {}]]
PrefabNames == DOMAIN prefabs

EntityComponentSystem_new ==
    [k \in Kinds |-> ComponentSet_new(max_entities)]

\* Mutant: has_component that only looks whether the slot is occupied.
has_component_any_generation(comps, kind, entity) ==
    IF kind \in DOMAIN comps
    THEN comps[kind][entity.index] # NoEntry
    ELSE FALSE

has_component(comps, kind, entity) ==
    IF kind \in DOMAIN comps
    THEN get(comps[kind], entity) # None
    ELSE FALSE

\* Mutant: add_component that drops Camera components.
add_component_no_camera(comps, kind, entityId, component) ==
    IF kind = "Camera" THEN comps
    ELSE [comps EXCEPT ![kind] = set(@, entityId, component)]

add_component(comps, kind, entityId, component) ==
    [comps EXCEPT ![kind] = set(@, entityId, component)]

\* Mutant: clear_component that leaves the store as it is.
clear_component_noop(comps, kind, entityId) == comps

clear_component(comps, kind, entityId) ==
    [comps EXCEPT ![kind] = clear(@, entityId)]

\* The loop over object.keys() of create_entity, from position k on: each
\* known key is deserialized (unwrap) and added; unknown keys are skipped.
RECURSIVE add_prefab_components(_, _, _, _, _)
add_prefab_components(comps, entity, prefab, json, k) ==
    IF k > Len(KeyOrder) THEN [comps |-> comps, panic |-> NoPanic]
    ELSE LET key == KeyOrder[k]
         IN  IF key \notin json.keys
             THEN add_prefab_components(comps, entity, prefab, json, k + 1)
             ELSE IF key \in json.malformed
             THEN [comps |-> comps, panic |-> "schema"]
             ELSE add_prefab_components(
                      add_component(comps, key, entity, prefab),
                      entity, prefab, json, k + 1)

\* The result carries the allocator, the stores, the camera set, the panic
\* raised (if any) and ids: the id allocated by the call (none if it
\* panicked before allocating).
create_entity(a, comps, cams, prefab) ==
    LET json == prefabs[prefab]
    IN  IF ~json.object
        THEN [a |-> a, comps |-> comps, cameras |-> cams, ids |-> {},
              panic |-> "schema"]
        ELSE
        LET r == allocate(a)
        IN  IF r.panic # NoPanic
            THEN [a |-> r.a, comps |-> comps, cameras |-> cams,
                  ids |-> {}, panic |-> r.panic]
            ELSE
            LET c == add_prefab_components(comps, r.id, prefab, json, 1)
            IN  [a |-> r.a, comps |-> c.comps,
                 cameras |-> IF c.panic = NoPanic
                                /\ has_component(c.comps, "Camera", r.id)
                             THEN cams \cup {r.id} ELSE cams,
                 ids |-> {r.id}, panic |-> c.panic]

\* Mutant: destroy_entity that forgets the Mesh store.
destroy_entity_keep_mesh(a, comps, entity) ==
    LET r == deallocate(a, entity)
    IN  IF r.panic # NoPanic
        THEN [a |-> r.a, comps |-> comps, panic |-> r.panic]
        ELSE [a |-> r.a,
              comps |-> clear_component(
                          clear_component(
                            clear_component(comps, "Transform", entity),
                            "Camera", entity),
                          "Controller", entity),
              panic |-> NoPanic]

\* Mutant: destroy_entity that clears the four stores first and calls
\* deallocate last.
destroy_entity_clear_first(a, comps, entity) ==
    LET r == deallocate(a, entity)
    IN  [a |-> r.a,
         comps |-> clear_component(
                     clear_component(
                       clear_component(
                         clear_component(comps, "Transform", entity),
                         "Camera", entity),
                       "Controller", entity),
                     "Mesh", entity),
         panic |-> r.panic]

destroy_entity(a, comps, entity) ==
    LET r == deallocate(a, entity)
    IN  IF r.panic # NoPanic
        THEN [a |-> r.a, comps |-> comps, panic |-> r.panic]
        ELSE [a |-> r.a,
              comps |-> clear_component(
                          clear_component(
                            clear_component(
                              clear_component(comps, "Transform", entity),
                              "Camera", entity),
                            "Controller", entity),
                          "Mesh", entity),
              panic |-> NoPanic]

\* ------------------------------------------------------------ SystemManager
\* systems[1] is the ControlSystem, systems[2] the RenderSystem.
SystemManager_new == << {}, {} >>

\* Mutant: a ControlSystem signature that forgets the Controller.
ControlSystem_is_system_entity_transform_only(comps, entity) ==
    has_component(comps, "Transform", entity)

ControlSystem_is_system_entity(comps, entity) ==
    has_component(comps, "Transform", entity)
        /\ has_component(comps, "Controller", entity)

RenderSystem_is_system_entity(comps, entity) ==
    has_component(comps, "Transform", entity)
        /\ has_component(comps, "Mesh", entity)

is_system_entity(index, comps, entity) ==
    IF index = 1 THEN ControlSystem_is_system_entity(comps, entity)
    ELSE RenderSystem_is_system_entity(comps, entity)

compatible_systems_indexes(sys, comps, entity) ==
    {index \in 1 .. Len(sys) : is_system_entity(index, comps, entity)}

Range(seq) == {seq[k] : k \in 1 .. Len(seq)}

\* Mutant: add_entities_to_systems that only looks at the first new entity.
add_entities_to_systems_first_only(sys, comps, entities) ==
    [index \in 1 .. Len(sys) |->
        sys[index] \cup
            {e \in Range(entities) :
                /\ e = entities[1]
                /\ index \in compatible_systems_indexes(sys, comps, e)}]

add_entities_to_systems(sys, comps, entities) ==
    [index \in 1 .. Len(sys) |->
        sys[index] \cup
            {e \in Range(entities) :
                index \in compatible_systems_indexes(sys, comps, e)}]

remove_entities_from_systems(sys, comps, entities) ==
    [index \in 1 .. Len(sys) |->
        sys[index] \
            {e \in Range(entities) :
                index \in compatible_systems_indexes(sys, comps, e)}]

\* ControlSystem::run: every entity of the set whose Transform and
\* Controller both resolve gets both values rewritten.
Moved == "moved"
\* Mutant: a ControlSystem::run that rewrites the slots of its entities
\* without the generation check.
ControlSystem_run_unchecked(comps, entities) ==
    LET rewrite(cs) ==
            [i \in DOMAIN cs |->
                IF cs[i] # NoEntry /\ \E e \in entities : e.index = i
                THEN Some([cs[i][1] EXCEPT !.value = Moved])
                ELSE cs[i]]
    IN  [comps EXCEPT !["Transform"] = rewrite(@),
                      !["Controller"] = rewrite(@)]

ControlSystem_run(comps, entities) ==
    LET hit == {e \in entities :
                   /\ get(comps["Transform"], e) # None
                   /\ get(comps["Controller"], e) # None}
        rewrite(cs) ==
            [i \in DOMAIN cs |->
                IF \E e \in hit : e.index = i
                THEN Some([cs[i][1] EXCEPT !.value = Moved])
                ELSE cs[i]]
    IN  [comps EXCEPT !["Transform"] = rewrite(@),
                      !["Controller"] = rewrite(@)]

\* RenderSystem::run takes only shared borrows of the stores.
RenderSystem_run(comps, entities) == comps

\* ------------------------------------------------- borrows of the stores
\* Each store sits in a RefCell. A step of the tick is the sequence of
\* borrow events its code makes: "borrow" / "borrow_mut" when a Ref / RefMut
\* is taken, "drop" / "drop_mut" when it goes out of scope.
Borrow(op, kind) == [op |-> op, kind |-> kind]
NoBorrows == [kind \in Kinds |-> [exclusive |-> 0, shared |-> 0]]

\* RefCell: borrow_mut panics when any borrow of the cell is active, borrow
\* panics when the cell is mutably borrowed. The result is the state of the
\* cells after the events from position k on, and whether one panicked.
RECURSIVE RefCell_run(_, _, _)
RefCell_run(cells, events, k) ==
    IF k > Len(events) THEN [cells |-> cells, conflict |-> FALSE]
    ELSE LET e == events[k]
             c == cells[e.kind]
         IN  CASE e.op = "borrow_mut" ->
                    IF c.exclusive > 0 \/ c.shared > 0
                    THEN [cells |-> cells, conflict |-> TRUE]
                    ELSE RefCell_run(
                             [cells EXCEPT ![e.kind].exclusive = 1],
                             events, k + 1)
               [] e.op = "borrow" ->
                    IF c.exclusive > 0
                    THEN [cells |-> cells, conflict |-> TRUE]
                    ELSE RefCell_run(
                             [cells EXCEPT ![e.kind].shared = @ + 1],
                             events, k + 1)
               [] e.op = "drop_mut" ->
                    RefCell_run([cells EXCEPT ![e.kind].exclusive = 0],
                                events, k + 1)
               [] OTHER ->
                    RefCell_run([cells EXCEPT ![e.kind].shared = @ - 1],
                                events, k + 1)

\* has_component: a temporary Ref around get
has_component_borrows(kind) ==
    << Borrow("borrow", kind), Borrow("drop", kind) >>

\* add_component / clear_component: a temporary RefMut around set
set_borrows(kind) ==
    << Borrow("borrow_mut", kind), Borrow("drop_mut", kind) >>

\* create_entity: one add_component per known key of the prefab, from
\* position k of the key order on (up to the key that fails to
\* deserialize), then has_component::<Camera>
RECURSIVE create_entity_borrows(_, _)
create_entity_borrows(json, k) ==
    IF k > Len(KeyOrder) THEN has_component_borrows("Camera")
    ELSE LET key == KeyOrder[k]
         IN  IF key \notin json.keys
             THEN create_entity_borrows(json, k + 1)
             ELSE IF key \in json.malformed THEN << >>
             ELSE set_borrows(key) \o create_entity_borrows(json, k + 1)

\* destroy_entity: the four clear_component calls
destroy_entity_borrows ==
    set_borrows("Transform") \o set_borrows("Camera")
        \o set_borrows("Controller") \o set_borrows("Mesh")

\* is_system_entity: has_component && has_component, the second only when
\* the first holds
is_system_entity_borrows(index, comps, entity) ==
    has_component_borrows("Transform")
        \o (IF has_component(comps, "Transform", entity)
            THEN has_component_borrows(IF index = 1 THEN "Controller"
                                       ELSE "Mesh")
            ELSE << >>)

\* add_entities_to_systems / remove_entities_from_systems: for the
\* entities from position k on, is_system_entity of each system
RECURSIVE membership_borrows(_, _, _)
membership_borrows(comps, entities, k) ==
    IF k > Len(entities) THEN << >>
    ELSE is_system_entity_borrows(1, comps, entities[k])
             \o is_system_entity_borrows(2, comps, entities[k])
             \o membership_borrows(comps, entities, k + 1)

\* Mutant: a ControlSystem::run that tests has_component::<Transform>
\* while it holds its two RefMuts.
ControlSystem_run_borrows_with_test ==
    << Borrow("borrow_mut", "Transform"), Borrow("borrow_mut", "Controller"),
       Borrow("borrow", "Transform"), Borrow("drop", "Transform"),
       Borrow("drop_mut", "Controller"), Borrow("drop_mut", "Transform") >>

\* ControlSystem::run: RefMuts of the Transform and the Controller store
\* for the whole call, dropped in reverse order
ControlSystem_run_borrows ==
    << Borrow("borrow_mut", "Transform"), Borrow("borrow_mut", "Controller"),
       Borrow("drop_mut", "Controller"), Borrow("drop_mut", "Transform") >>

\* RenderSystem::render: for each camera a Ref of the Camera store and,
\* when the camera resolves, Refs of the Transform and the Mesh store
RECURSIVE RenderSystem_render_borrows(_, _)
RenderSystem_render_borrows(comps, cams) ==
    IF cams = {} THEN << >>
    ELSE LET camera_entity == CHOOSE c \in cams : TRUE
         IN  << Borrow("borrow", "Camera") >>
                 \o (IF get(comps["Camera"], camera_entity) # None
                     THEN << Borrow("borrow", "Transform"),
                             Borrow("borrow", "Mesh"),
                             Borrow("drop", "Mesh"),
                             Borrow("drop", "Transform") >>
                     ELSE << >>)
                 \o << Borrow("drop", "Camera") >>
                 \o RenderSystem_render_borrows(comps,
                                                cams \ {camera_entity})

\* ------------------------------------------------------------------ state
VARIABLES
    entity_allocator,     \* the EntityAllocator (standalone, or the World's)
    component_set,        \* a standalone ComponentSet<T> keyed by the allocator's ids
    components,           \* World: one ComponentSet per component kind
    cameras,              \* World: HashSet<EntityId>
    entities_to_create,   \* World: VecDeque<String> of prefab names
    entities_to_destroy,  \* World: VecDeque<EntityId>
    systems,              \* SystemManager: matching set of each registered system
    pc,                   \* position inside SystemManager::run ("idle" between ticks)
    destroyed_entities,   \* Vec returned by destroy_entities in the current tick
    new_entities,         \* Vec returned by create_entities in the current tick
    next_system,          \* position of the loop over systems in run
    requests,             \* number of add_entity / remove_entity calls so far
    panic,                \* NoPanic, or the panic that aborted the process
    culprit,              \* history: the argument of the call that panicked
    issued,               \* history: every id allocate has returned
    freed,                \* history: every id deallocate has accepted
    lastset,              \* history: per index, the latest set on component_set (none once cleared)
    prevset               \* history: per index, the set before the latest set or clear (see Superseded)

ecs_vars == <<components, cameras, entities_to_create, entities_to_destroy>>
run_vars == <<systems, pc, destroyed_entities, new_entities, next_system>>
world_vars == <<ecs_vars, run_vars, requests>>
vars == <<entity_allocator, component_set, components, cameras,
          entities_to_create, entities_to_destroy, systems, pc,
          destroyed_entities, new_entities, next_system, requests, panic,
          culprit, issued, freed, lastset, prevset>>

\* ----------------------------------------- direct use of the allocator API
\* allocator.allocate()
Allocate ==
    /\ panic = NoPanic
    /\ WithinGenCap(entity_allocator)
    /\ LET r == allocate(entity_allocator)
       IN  /\ entity_allocator' = r.a
           /\ panic' = r.panic
           /\ issued' = IF r.panic = NoPanic THEN issued \cup {r.id} ELSE issued
    /\ UNCHANGED <<component_set, culprit, freed, lastset, prevset,
                   world_vars>>

\* allocator.deallocate(&gen_index), for any id the caller can write down
Deallocate(gen_index) ==
    /\ panic = NoPanic
    /\ LET r == deallocate(entity_allocator, gen_index)
       IN  /\ entity_allocator' = r.a
           /\ panic' = r.panic
           /\ culprit' = IF r.panic = NoPanic THEN culprit ELSE gen_index
           /\ freed' = IF r.panic = NoPanic THEN freed \cup {gen_index} ELSE freed
    /\ UNCHANGED <<component_set, issued, lastset, prevset, world_vars>>

\* component_set.set(&gen_index, value), with an id obtained from allocate
\* (live or stale)
StoreSet(gen_index, value) ==
    /\ panic = NoPanic
    /\ gen_index \in issued
    /\ component_set' = set(component_set, gen_index, value)
    /\ lastset' = [lastset EXCEPT ![gen_index.index] =
                      Some([id |-> gen_index, value |-> value])]
    /\ UNCHANGED <<entity_allocator, issued, freed, panic, culprit, prevset,
                   world_vars>>

\* What prevset keeps of the latest set when another operation follows it:
\* the whole of it when a set repeats its id, else its id only.
Forgotten(last) ==
    IF last = NoEntry THEN NoEntry
    ELSE Some([id |-> last[1].id, value |-> None])
Superseded(last, gen_index) ==
    IF last # NoEntry /\ last[1].id = gen_index THEN last
    ELSE Forgotten(last)

\* component_set.set(&gen_index, value) on a store driven directly, with any
\* id whose index is in range
SetDirect(gen_index, value) ==
    /\ component_set' = set(component_set, gen_index, value)
    /\ lastset' = [lastset EXCEPT ![gen_index.index] =
                      Some([id |-> gen_index, value |-> value])]
    /\ prevset' = [prevset EXCEPT ![gen_index.index] =
                      Superseded(lastset[gen_index.index], gen_index)]
    /\ UNCHANGED <<entity_allocator, issued, freed, panic, culprit,
                   world_vars>>

\* component_set.set(&gen_index, None), the call clear_component makes, on a
\* store driven directly
ClearDirect(gen_index) ==
    /\ component_set' = clear(component_set, gen_index)
    /\ lastset' = [lastset EXCEPT ![gen_index.index] = NoEntry]
    /\ prevset' = [prevset EXCEPT ![gen_index.index] =
                      Forgotten(lastset[gen_index.index])]
    /\ UNCHANGED <<entity_allocator, issued, freed, panic, culprit,
                   world_vars>>

AllocInit ==
    /\ entity_allocator = EntityAllocator_new
    /\ component_set = ComponentSet_new(max_size)
    /\ issued = {}
    /\ freed = {}
    /\ lastset = [i \in 0 .. (max_size - 1) |-> NoEntry]
    /\ prevset = [i \in 0 .. (max_size - 1) |-> NoEntry]
    /\ panic = NoPanic
    /\ culprit = None

WorldInit ==
    /\ components = EntityComponentSystem_new
    /\ cameras = {}
    /\ entities_to_create = << >>
    /\ entities_to_destroy = << >>
    /\ systems = SystemManager_new
    /\ pc = "idle"
    /\ destroyed_entities = << >>
    /\ new_entities = << >>
    /\ next_system = 1
    /\ requests = 0

Init == AllocInit /\ WorldInit

\* The allocator driven directly, as in the unit tests of entity.rs.
AllocNext ==
    \/ Allocate
    \/ \E gen_index \in AnyIds : Deallocate(gen_index)

SpecAlloc == Init /\ [][AllocNext]_vars

\* The allocator together with one component store keyed by its ids.
StoreNext ==
    \/ Allocate
    \/ \E gen_index \in issued : Deallocate(gen_index)
    \/ \E gen_index \in Ids, value \in Values : StoreSet(gen_index, value)

SpecStore == Init /\ [][StoreNext]_vars

\* One component store driven directly with every id of an in-range index.
SetNext ==
    \/ \E gen_index \in Ids, value \in Values : SetDirect(gen_index, value)
    \/ \E gen_index \in Ids : ClearDirect(gen_index)

SpecSet == Init /\ [][SetNext]_vars

\* Mutant: add_entity that allocates the id at once.
AddEntity_eager(prefab) ==
    /\ panic = NoPanic
    /\ pc = "idle"
    /\ requests < MaxRequests
    /\ requests' = requests + 1
    /\ entities_to_create' = Append(entities_to_create, prefab)
    /\ entity_allocator' = allocate(entity_allocator).a
    /\ UNCHANGED <<component_set, components, cameras,
                   entities_to_destroy, run_vars, panic, culprit, issued,
                   freed, lastset,
                   prevset>>

\* ------------------------------------------------ the World and its ticks
\* ecs.add_entity(prefab)
AddEntity(prefab) ==
    /\ panic = NoPanic
    /\ pc = "idle"
    /\ requests < MaxRequests
    /\ requests' = requests + 1
    /\ entities_to_create' = Append(entities_to_create, prefab)
    /\ UNCHANGED <<entity_allocator, component_set, components, cameras,
                   entities_to_destroy, run_vars, panic, culprit, issued,
                   freed, lastset,
                   prevset>>

\* Mutant: remove_entity that takes the id out of the matching sets at once.
RemoveEntity_eager(entity) ==
    /\ panic = NoPanic
    /\ pc = "idle"
    /\ requests < MaxRequests
    /\ requests' = requests + 1
    /\ entity \in issued
    /\ entities_to_destroy' = Append(entities_to_destroy, entity)
    /\ systems' = [index \in 1 .. Len(systems) |-> systems[index] \ {entity}]
    /\ UNCHANGED <<entity_allocator, component_set, components, cameras,
                   entities_to_create, pc, destroyed_entities, new_entities,
                   next_system, panic, culprit, issued, freed, lastset,
                   prevset>>

\* ecs.remove_entity(entity), with an id the World has handed out
RemoveEntity(entity) ==
    /\ panic = NoPanic
    /\ pc = "idle"
    /\ requests < MaxRequests
    /\ requests' = requests + 1
    /\ entity \in issued
    /\ entities_to_destroy' = Append(entities_to_destroy, entity)
    /\ UNCHANGED <<entity_allocator, component_set, components, cameras,
                   entities_to_create, run_vars, panic, culprit, issued,
                   freed, lastset,
                   prevset>>

\* system_manager.run(ecs, ...) is entered
RunBegin ==
    /\ panic = NoPanic
    /\ pc = "idle"
    /\ pc' = "destroy_entities"
    /\ UNCHANGED <<entity_allocator, component_set, ecs_vars, systems,
                   destroyed_entities, new_entities, next_system, requests,
                   panic, culprit, issued, freed, lastset,
                   prevset>>

\* one iteration of the loop of destroy_entities
DestroyEntity ==
    /\ panic = NoPanic
    /\ pc = "destroy_entities"
    /\ entities_to_destroy # << >>
    /\ LET entity == Head(entities_to_destroy)
           r == destroy_entity(entity_allocator, components, entity)
       IN  /\ entities_to_destroy' = Tail(entities_to_destroy)
           /\ entity_allocator' = r.a
           /\ components' = r.comps
           /\ panic' = r.panic
           /\ culprit' = IF r.panic = NoPanic THEN culprit ELSE entity
           /\ freed' = IF r.panic = NoPanic THEN freed \cup {entity}
                       ELSE freed
           /\ destroyed_entities' =
                  IF r.panic = NoPanic
                  THEN Append(destroyed_entities, entity)
                  ELSE destroyed_entities
    /\ UNCHANGED <<component_set, cameras, entities_to_create, systems, pc,
                   new_entities, next_system, requests, issued, lastset,
                   prevset>>

\* Mutant: destroy_entities returns without draining its queue.
RemoveEntitiesFromSystems_early ==
    /\ panic = NoPanic
    /\ pc = "destroy_entities"
    /\ systems' = remove_entities_from_systems(systems, components,
                                               destroyed_entities)
    /\ pc' = "create_entities"
    /\ UNCHANGED <<entity_allocator, component_set, ecs_vars,
                   destroyed_entities, new_entities, next_system, requests,
                   panic, culprit, issued, freed, lastset,
                   prevset>>

\* destroy_entities has returned: remove_entities_from_systems
RemoveEntitiesFromSystems ==
    /\ panic = NoPanic
    /\ pc = "destroy_entities"
    /\ entities_to_destroy = << >>
    /\ systems' = remove_entities_from_systems(systems, components,
                                               destroyed_entities)
    /\ pc' = "create_entities"
    /\ UNCHANGED <<entity_allocator, component_set, ecs_vars,
                   destroyed_entities, new_entities, next_system, requests,
                   panic, culprit, issued, freed, lastset,
                   prevset>>

\* Mutant: create_entities that takes the prefab queued last.
CreateEntity_lifo ==
    /\ panic = NoPanic
    /\ pc = "create_entities"
    /\ entities_to_create # << >>
    /\ WithinGenCap(entity_allocator)
    /\ LET prefab == entities_to_create[Len(entities_to_create)]
           r == create_entity(entity_allocator, components, cameras, prefab)
       IN  /\ entities_to_create' =
                  SubSeq(entities_to_create, 1, Len(entities_to_create) - 1)
           /\ entity_allocator' = r.a
           /\ components' = r.comps
           /\ cameras' = r.cameras
           /\ panic' = r.panic
           /\ culprit' = IF r.panic = NoPanic THEN culprit ELSE prefab
           /\ issued' = issued \cup r.ids
           /\ new_entities' =
                  IF r.panic = NoPanic
                  THEN Append(new_entities, CHOOSE id \in r.ids : TRUE)
                  ELSE new_entities
    /\ UNCHANGED <<component_set, entities_to_destroy, systems, pc,
                   destroyed_entities, next_system, requests, freed, lastset,
                   prevset>>

\* one iteration of the loop of create_entities
CreateEntity ==
    /\ panic = NoPanic
    /\ pc = "create_entities"
    /\ entities_to_create # << >>
    /\ WithinGenCap(entity_allocator)
    /\ LET prefab == Head(entities_to_create)
           r == create_entity(entity_allocator, components, cameras, prefab)
       IN  /\ entities_to_create' = Tail(entities_to_create)
           /\ entity_allocator' = r.a
           /\ components' = r.comps
           /\ cameras' = r.cameras
           /\ panic' = r.panic
           /\ culprit' = IF r.panic = NoPanic THEN culprit ELSE prefab
           /\ issued' = issued \cup r.ids
           /\ new_entities' =
                  IF r.panic = NoPanic
                  THEN Append(new_entities, CHOOSE id \in r.ids : TRUE)
                  ELSE new_entities
    /\ UNCHANGED <<component_set, entities_to_destroy, systems, pc,
                   destroyed_entities, next_system, requests, freed, lastset,
                   prevset>>

\* Mutant: the membership insertion and the systems do not wait for the
\* creation queue to be drained.
AddEntitiesToSystems_early ==
    /\ panic = NoPanic
    /\ pc = "create_entities"
    /\ systems' = add_entities_to_systems(systems, components, new_entities)
    /\ pc' = "run_systems"
    /\ next_system' = 1
    /\ UNCHANGED <<entity_allocator, component_set, ecs_vars,
                   destroyed_entities, new_entities, requests, panic, culprit,
                   issued, freed, lastset,
                   prevset>>

\* Mutant: run goes on to the membership insertion after a panic.
AddEntitiesToSystems_despite_panic ==
    /\ pc = "create_entities"
    /\ entities_to_create = << >>
    /\ systems' = add_entities_to_systems(systems, components, new_entities)
    /\ pc' = "run_systems"
    /\ next_system' = 1
    /\ UNCHANGED <<entity_allocator, component_set, ecs_vars,
                   destroyed_entities, new_entities, requests, panic, culprit,
                   issued, freed, lastset, prevset>>

\* create_entities has returned: add_entities_to_systems
AddEntitiesToSystems ==
    /\ panic = NoPanic
    /\ pc = "create_entities"
    /\ entities_to_create = << >>
    /\ systems' = add_entities_to_systems(systems, components, new_entities)
    /\ pc' = "run_systems"
    /\ next_system' = 1
    /\ UNCHANGED <<entity_allocator, component_set, ecs_vars,
                   destroyed_entities, new_entities, requests, panic, culprit,
                   issued, freed, lastset,
                   prevset>>

\* Mutant: the loop over the systems meets the RenderSystem first.
RunSystem_render_first ==
    /\ panic = NoPanic
    /\ pc = "run_systems"
    /\ components' = IF next_system = 1
                     THEN RenderSystem_run(components, systems[2])
                     ELSE ControlSystem_run(components, systems[1])
    /\ IF next_system < Len(systems)
       THEN /\ next_system' = next_system + 1
            /\ UNCHANGED <<pc, destroyed_entities, new_entities>>
       ELSE /\ next_system' = 1
            /\ pc' = "idle"
            /\ destroyed_entities' = << >>
            /\ new_entities' = << >>
    /\ UNCHANGED <<entity_allocator, component_set, cameras,
                   entities_to_create, entities_to_destroy, systems, requests,
                   panic, culprit, issued, freed, lastset,
                   prevset>>

\* Mutant: the loop over the systems drops the ids that are not live from
\* the matching sets.
RunSystem_prune ==
    /\ panic = NoPanic
    /\ pc = "run_systems"
    /\ components' = IF next_system = 1
                     THEN ControlSystem_run(components, systems[1])
                     ELSE RenderSystem_run(components, systems[2])
    /\ systems' = [index \in 1 .. Len(systems) |->
                      systems[index] \cap entity_allocator.active_entities]
    /\ IF next_system < Len(systems)
       THEN /\ next_system' = next_system + 1
            /\ UNCHANGED <<pc, destroyed_entities, new_entities>>
       ELSE /\ next_system' = 1
            /\ pc' = "idle"
            /\ destroyed_entities' = << >>
            /\ new_entities' = << >>
    /\ UNCHANGED <<entity_allocator, component_set, cameras,
                   entities_to_create, entities_to_destroy, requests,
                   panic, culprit, issued, freed, lastset, prevset>>

\* one iteration of the loop over the systems; after the last one run returns
RunSystem ==
    /\ panic = NoPanic
    /\ pc = "run_systems"
    /\ components' = IF next_system = 1
                     THEN ControlSystem_run(components, systems[1])
                     ELSE RenderSystem_run(components, systems[2])
    /\ IF next_system < Len(systems)
       THEN /\ next_system' = next_system + 1
            /\ UNCHANGED <<pc, destroyed_entities, new_entities>>
       ELSE /\ next_system' = 1
            /\ pc' = "idle"
            /\ destroyed_entities' = << >>
            /\ new_entities' = << >>
    /\ UNCHANGED <<entity_allocator, component_set, cameras,
                   entities_to_create, entities_to_destroy, systems, requests,
                   panic, culprit, issued, freed, lastset,
                   prevset>>

Next ==
    \/ \E prefab \in PrefabNames : AddEntity(prefab)
    \/ \E entity \in Ids : RemoveEntity(entity)
    \/ RunBegin
    \/ DestroyEntity
    \/ RemoveEntitiesFromSystems
    \/ CreateEntity
    \/ AddEntitiesToSystems
    \/ RunSystem

Spec == Init /\ [][Next]_vars

\* ------------------------------------------------------ allocator claims
active == entity_allocator.active_entities
\* Generations issued so far for index i, and the largest of a set.
IssuedGens(i) == {e.generation : e \in {x \in issued : x.index = i}}
MaxOf(S) == CHOOSE m \in S : \A x \in S : x <= m
\* Number of indices ever issued.
IndicesIssued == Cardinality({e.index : e \in issued})

\* C1: no two ids of the live set share an index.
C1_Uniqueness ==
    \A a, b \in active : a.index = b.index => a = b

\* A recycled id and a first-generation id are live together.
C1_Witness ==
    /\ EntityId(0, 0) \in freed
    /\ {EntityId(0, 1), EntityId(1, 0)} \subseteq active

\* C2: every id that allocate adds to the live set has a generation
\* strictly above every generation issued before for its index.
C2_GenerationMonotonic ==
    [][Allocate =>
         \A id \in entity_allocator'.active_entities \ active :
            \A j \in issued : j.index = id.index =>
                j.generation < id.generation]_vars

\* Index 0 has been issued three times.
C2_Witness ==
    {EntityId(0, 0), EntityId(0, 1), EntityId(0, 2)} \subseteq issued

\* C4: on an allocator that has seen no deallocate, allocate succeeds while
\* fewer than max_size ids were issued; with max_size ids live it panics
\* with capacity-exceeded.
C4_CapacityBoundary ==
    [][Allocate =>
         /\ (freed = {} /\ Cardinality(issued) < max_size) =>
                /\ panic' = NoPanic
                /\ Cardinality(entity_allocator'.active_entities)
                       = Cardinality(active) + 1
         /\ Cardinality(active) = max_size => panic' = "capacity"]_vars

\* max_size allocations succeeded and the next one panicked.
C4_Witness ==
    /\ panic = "capacity"
    /\ freed = {}
    /\ Cardinality(active) = max_size

\* C5: deallocate(id) succeeds exactly when id is live; it then removes id
\* from the live set and pushes id.index on the free list; otherwise it
\* panics with not-live.
C5_Deallocate ==
    [][\A id \in AnyIds : Deallocate(id) =>
         IF id \in active
         THEN /\ panic' = NoPanic
              /\ entity_allocator'.active_entities = active \ {id}
              /\ entity_allocator'.free =
                     Append(entity_allocator.free, id.index)
         ELSE panic' = "not_live"]_vars

\* deallocate was refused for a stale generation of a recycled, live index.
C5_Witness ==
    /\ panic = "not_live"
    /\ culprit \in freed
    /\ \E n \in active : n.index = culprit.index /\ n # culprit

\* C6: with a non-empty free list, allocate succeeds and adds to the live
\* set one id whose index was freed before and whose generation is one more
\* than the last generation issued for that index.
C6_Reuse ==
    [][(Allocate /\ entity_allocator.free # << >>) =>
         /\ panic' = NoPanic
         /\ \E id \in entity_allocator'.active_entities :
               /\ id \notin active
               /\ entity_allocator'.active_entities = active \cup {id}
               /\ \E o \in freed : o.index = id.index
               /\ id.generation = MaxOf(IssuedGens(id.index)) + 1]_vars

\* allocate, deallocate, allocate: index 0, generation 1.
C6_Witness ==
    /\ issued = {EntityId(0, 0), EntityId(0, 1)}
    /\ active = {EntityId(0, 1)}

\* C7: with an empty free list and fewer than max_size indices issued,
\* allocate succeeds and adds the id (number of indices issued, 0).
C7_Fresh ==
    [][(Allocate /\ entity_allocator.free = << >>
                 /\ IndicesIssued < max_size) =>
         /\ panic' = NoPanic
         /\ EntityId(IndicesIssued, 0) \notin active
         /\ entity_allocator'.active_entities =
                active \cup {EntityId(IndicesIssued, 0)}]_vars

\* Consecutive allocations on a fresh allocator: indices 0, 1, ...
C7_Witness ==
    /\ freed = {}
    /\ active = {EntityId(i, 0) : i \in 0 .. (max_size - 1)}

\* ---------------------------------------------------------- store claims
\* The latest set at index i was made with id n.
LastSetWith(n) ==
    lastset[n.index] # NoEntry /\ lastset[n.index][1].id = n
LastSetValue(i) == lastset[i][1].value

SystemIndexes == 1 .. Len(systems)

\* C8: once the destruction phase of a tick has completed, no id destroyed
\* in that tick is in any system's matching set.
C8_MembershipRemoval ==
    pc \in {"create_entities", "run_systems"} =>
        \A e \in Range(destroyed_entities) :
            \A index \in SystemIndexes : e \notin systems[index]

\* C9: after the creation phase of a tick, every id created in it is in
\* the ControlSystem's set iff it has Transform and Controller, and in the
\* RenderSystem's set iff it has Transform and Mesh.
C9_MembershipInsertion ==
    pc = "run_systems" =>
        \A e \in Range(new_entities) :
            /\ e \in systems[1] <=>
                   (has_component(components, "Transform", e)
                       /\ has_component(components, "Controller", e))
            /\ e \in systems[2] <=>
                   (has_component(components, "Transform", e)
                       /\ has_component(components, "Mesh", e))

\* A tick created, on a recycled index, an entity with Transform,
\* Controller and Mesh (now in both sets) next to one that is in neither.
C9_Witness ==
    /\ pc = "run_systems"
    /\ \E e \in Range(new_entities) :
          /\ e.generation > 0
          /\ has_component(components, "Transform", e)
          /\ has_component(components, "Controller", e)
          /\ has_component(components, "Mesh", e)
          /\ e \in systems[1] /\ e \in systems[2]
    /\ \E e \in Range(new_entities) :
          e \notin systems[1] /\ e \notin systems[2]

\* C10: no step taken between two ticks (add_entity, remove_entity, the
\* entry of run) changes any system's matching set.
C10_DeferredMutation ==
    [][pc = "idle" => systems' = systems]_vars

\* A destroy of a member of both sets and a create are queued, and the
\* member is still in both sets.
C10_Witness ==
    /\ pc = "idle"
    /\ entities_to_create # << >>
    /\ \E e \in Range(entities_to_destroy) :
          e \in systems[1] /\ e \in systems[2]

\* C11: a tick goes through its phases in one order: the destruction queue
\* is drained and remove_entities_from_systems applied, then the creation
\* queue is drained and add_entities_to_systems applied, then the systems
\* run; a system runs only with both queues drained and both membership
\* updates of the tick made.
C11_PhaseOrder ==
    [][/\ pc' # pc =>
             << pc, pc' >> \in {<< "idle", "destroy_entities" >>,
                                << "destroy_entities", "create_entities" >>,
                                << "create_entities", "run_systems" >>,
                                << "run_systems", "idle" >>}
       /\ (pc = "destroy_entities" /\ pc' = "create_entities") =>
             /\ entities_to_destroy = << >>
             /\ systems' = remove_entities_from_systems(
                               systems, components, destroyed_entities)
       /\ (pc = "create_entities" /\ pc' = "run_systems") =>
             /\ entities_to_destroy = << >>
             /\ entities_to_create = << >>
             /\ systems' = add_entities_to_systems(
                               systems, components, new_entities)
       /\ pc = "create_entities" =>
             /\ entities_to_destroy' = entities_to_destroy
             /\ destroyed_entities' = destroyed_entities
       /\ pc = "run_systems" =>
             /\ entities_to_destroy = << >>
             /\ entities_to_create = << >>
             /\ UNCHANGED << entities_to_destroy, entities_to_create,
                             systems, entity_allocator >>]_vars

\* The second system is about to run in a tick that destroyed an entity and
\* created one.
C11_Witness ==
    /\ pc = "run_systems"
    /\ next_system = 2
    /\ destroyed_entities # << >>
    /\ new_entities # << >>

\* C12: in a tick the systems run once each in registration order, the
\* ControlSystem and then the RenderSystem, each on its own matching set,
\* and the list of registered systems keeps its length.
C12_RunOrder ==
    [][/\ Len(systems') = Len(SystemManager_new)
       /\ (pc # "run_systems" /\ pc' = "run_systems") => next_system' = 1
       /\ (pc = "run_systems" /\ next_system = 1) =>
             /\ components' = ControlSystem_run(components, systems[1])
             /\ pc' = "run_systems"
             /\ next_system' = 2
       /\ (pc = "run_systems" /\ next_system = 2) =>
             /\ components' = RenderSystem_run(components, systems[2])
             /\ pc' = "idle"]_vars

\* The ControlSystem has moved its entity and the RenderSystem is next.
C12_Witness ==
    /\ pc = "run_systems"
    /\ next_system = 2
    /\ systems[1] # {}
    /\ \E e \in systems[1] :
          /\ get(components["Transform"], e) = Moved
          /\ get(components["Controller"], e) = Moved

\* ---------------------------------------------------------- World claims
\* C13: destroy_entities takes the queued ids first in, first out, and for
\* each id the stores are cleared at the id's index before deallocate is
\* called with it: when deallocate has been reached, successful or
\* refused, every store is already empty at that index.
C13_ClearBeforeDeallocate ==
    [][DestroyEntity =>
         LET entity == Head(entities_to_destroy)
         IN  /\ entities_to_destroy' = Tail(entities_to_destroy)
             /\ panic' = NoPanic =>
                    destroyed_entities' = Append(destroyed_entities, entity)
             /\ \A kind \in Kinds :
                    components'[kind][entity.index] = NoEntry]_vars

\* C14: when destroy_entities meets an id that an earlier destroy (of this
\* tick or of an earlier one) already deallocated, the allocator refuses
\* it with not-live, nothing is changed by the refused destroy, and no step
\* of the run follows the panic.
C14_DoubleDestroyFatal ==
    [][/\ (DestroyEntity /\ Head(entities_to_destroy) \in freed) =>
             /\ panic' = "not_live"
             /\ culprit' = Head(entities_to_destroy)
             /\ UNCHANGED << entity_allocator, components, cameras, systems,
                             destroyed_entities >>
       /\ panic # NoPanic => UNCHANGED vars]_vars

\* The second destroy of an id was refused in a later tick than the first,
\* with the index meanwhile recycled.
C14_Witness ==
    /\ panic = "not_live"
    /\ culprit \in freed
    /\ culprit \notin Range(destroyed_entities)
    /\ \E n \in active : n.index = culprit.index

\* C15 as stated: when a tick returns, every id d it destroyed is out of
\* the live set, d.index is on the free list and has_component(K, d) is
\* false for every kind K.
C15_EndStateAsStated ==
    [][(pc = "run_systems" /\ pc' = "idle") =>
         \A d \in Range(destroyed_entities) :
            /\ d \notin entity_allocator'.active_entities
            /\ d.index \in Range(entity_allocator'.free)
            /\ \A kind \in Kinds : ~has_component(components', kind, d)]_vars

\* C15 amended: when the destruction phase of a tick ends, the index of
\* every id d it destroyed is on the free list; when the tick returns, d is
\* out of the live set, has_component(K, d) is false for every kind K, and
\* d.index is on the free list unless a creation of the same tick recycled
\* it for the next generation.
C15_EndState ==
    [][/\ (pc = "destroy_entities" /\ pc' = "create_entities") =>
             \A d \in Range(destroyed_entities) :
                /\ d \notin entity_allocator'.active_entities
                /\ d.index \in Range(entity_allocator'.free)
                /\ \A kind \in Kinds : ~has_component(components', kind, d)
       /\ (pc = "run_systems" /\ pc' = "idle") =>
             \A d \in Range(destroyed_entities) :
                /\ d \notin entity_allocator'.active_entities
                /\ \A kind \in Kinds : ~has_component(components', kind, d)
                /\ \/ d.index \in Range(entity_allocator'.free)
                   \/ \E n \in Range(new_entities) :
                         /\ n.index = d.index
                         /\ n.generation > d.generation]_vars

\* A tick that destroyed an entity with three components and created
\* nothing has returned: the index waits on the free list.
C15_Witness ==
    /\ pc = "idle"
    /\ EntityId(0, 0) \in freed
    /\ entity_allocator.free = << 0 >>
    /\ issued = {EntityId(0, 0)}
    /\ \A kind \in Kinds : components[kind][0] = NoEntry

\* C16: every iteration of create_entities takes the prefab at the head of
\* the creation queue and, unless it panics, appends to the list it returns
\* the one id allocated for that prefab, an id never issued before that
\* carries the components of that prefab; when create_entities returns the
\* queue is empty and the returned ids are live and pairwise distinct.
C16_CreateFifo ==
    [][/\ (CreateEntity /\ panic' = NoPanic) =>
             LET prefab == Head(entities_to_create)
             IN  /\ entities_to_create' = Tail(entities_to_create)
                 /\ \E id \in Ids :
                       /\ id \notin issued
                       /\ issued' = issued \cup {id}
                       /\ entity_allocator'.active_entities =
                              active \cup {id}
                       /\ new_entities' = Append(new_entities, id)
                       /\ \A kind \in Kinds \cap prefabs[prefab].keys :
                              get(components'[kind], id) = prefab
       /\ (pc = "create_entities" /\ pc' = "run_systems") =>
             /\ entities_to_create = << >>
             /\ Range(new_entities) \subseteq active
             /\ Cardinality(Range(new_entities)) = Len(new_entities)]_vars

\* create_entities has drained camera, player in that order: the first id
\* returned (on a recycled index) is the camera's, the second the player's.
C16_Witness ==
    /\ pc = "create_entities"
    /\ entities_to_create = << >>
    /\ new_entities = << EntityId(0, 1), EntityId(1, 0) >>
    /\ get(components["Transform"], EntityId(0, 1)) = "camera"
    /\ get(components["Transform"], EntityId(1, 0)) = "player"

\* C17: add_entity only appends the prefab to the creation queue and
\* remove_entity only appends the id to the destruction queue; neither
\* changes the allocator (live set, free list, generations), a component
\* store or the camera set.
C17_QueueOnly ==
    [][/\ \A prefab \in PrefabNames : AddEntity(prefab) =>
             /\ entities_to_create' = Append(entities_to_create, prefab)
             /\ UNCHANGED << entities_to_destroy, entity_allocator,
                             components, cameras >>
       /\ \A entity \in Ids : RemoveEntity(entity) =>
             /\ entities_to_destroy' = Append(entities_to_destroy, entity)
             /\ UNCHANGED << entities_to_create, entity_allocator,
                             components, cameras >>]_vars

\* With a camera entity live, its destruction and a creation are queued:
\* it is still live, still has its components and is still a camera.
C17_Witness ==
    /\ pc = "idle"
    /\ entities_to_create # << >>
    /\ \E e \in Range(entities_to_destroy) :
          /\ e \in active
          /\ e \in cameras
          /\ has_component(components, "Camera", e)

\* C18: the id that create_entity allocates for a prefab object has, for
\* each kind K of Transform, Camera, Controller, Mesh, a K component iff K
\* is a top-level key of the prefab; other keys add nothing; this also on
\* an index that a destroyed entity with other components held before.
C18_PrefabComponents ==
    [][(CreateEntity /\ panic' = NoPanic) =>
         LET json == prefabs[Head(entities_to_create)]
         IN  /\ json.object
             /\ DOMAIN components' = Kinds
             /\ \A id \in entity_allocator'.active_entities \ active :
                   \A kind \in Kinds :
                      has_component(components', kind, id)
                          <=> kind \in json.keys]_vars

\* A camera (Transform, Camera) was created on the index of a destroyed
\* entity that had Transform, Controller and Mesh.
C18_Witness ==
    /\ EntityId(0, 0) \in freed
    /\ EntityId(0, 0) \in systems[1] \cap systems[2]
    /\ EntityId(0, 1) \in Range(new_entities)
    /\ has_component(components, "Camera", EntityId(0, 1))
    /\ has_component(components, "Transform", EntityId(0, 1))
    /\ ~has_component(components, "Controller", EntityId(0, 1))
    /\ ~has_component(components, "Mesh", EntityId(0, 1))

\* ------------------------------------------------- ComponentSet claims
\* The set before the latest operation at n.index was made with id n.
PrevSetWith(n) ==
    prevset[n.index] # NoEntry /\ prevset[n.index][1].id = n
\* ... and the latest operation is a set with the same id, after value v.
PrevSetWas(n, v) ==
    PrevSetWith(n) /\ prevset[n.index][1].value = v

\* C19: after set(id, v1) followed by set(id, v2) on a store, get(id)
\* returns v2.
C19_Overwrite ==
    \A id \in Ids, v1 \in Values, v2 \in Values :
        (PrevSetWas(id, v1) /\ LastSetWith(id)
                            /\ LastSetValue(id.index) = v2) =>
            get(component_set, id) = v2

\* set((0,1), v1) and then set((0,1), v2) were made, and v2 is read.
C19_Witness ==
    /\ PrevSetWas(EntityId(0, 1), "v1")
    /\ LastSetWith(EntityId(0, 1))
    /\ LastSetValue(0) = "v2"
    /\ get(component_set, EntityId(0, 1)) = "v2"

\* C20: set(id, v) replaces the entry at id.index whatever its generation:
\* afterwards get(id) returns v, and get(id') is absent for every id' of
\* that index with another generation.
C20_SetUnconditional ==
    \A id \in Ids :
        LastSetWith(id) =>
            /\ get(component_set, id) = LastSetValue(id.index)
            /\ \A other \in Ids :
                  (other.index = id.index
                      /\ other.generation # id.generation) =>
                      get(component_set, other) = None

\* A slot written under generation 1 was overwritten by a set with the
\* older id of generation 0: generation 0 reads, generation 1 is absent.
C20_Witness ==
    /\ PrevSetWith(EntityId(0, 1))
    /\ LastSetWith(EntityId(0, 0))
    /\ get(component_set, EntityId(0, 0)) = LastSetValue(0)
    /\ get(component_set, EntityId(0, 1)) = None

\* C21: clear(id) leaves the slot at id.index empty whatever generation the
\* slot held and whatever generation id carries: while no set has followed
\* the clear, get is absent for every id of that index.
C21_ClearUnconditional ==
    \A i \in DOMAIN component_set :
        lastset[i] = NoEntry =>
            /\ component_set[i] = NoEntry
            /\ \A other \in Ids :
                  other.index = i => get(component_set, other) = None

\* The latest operation at index 0 was a clear of a slot that held an entry
\* of generation 1, and no generation reads there any more.
C21_Witness ==
    /\ lastset[0] = NoEntry
    /\ PrevSetWith(EntityId(0, 1))
    /\ \A g \in 0 .. MaxGen : get(component_set, EntityId(0, g)) = None

\* C22: get(id) and get_mut(id) return the stored value when the slot at
\* id.index holds an entry of generation id.generation, and absent (no
\* panic) in every other case, empty slot or other generation.
C22_GetGenerationChecked ==
    \A id \in Ids :
        LET slot == component_set[id.index]
            hit == slot # NoEntry /\ slot[1].generation = id.generation
        IN  /\ panic = NoPanic
            /\ hit => /\ get(component_set, id) = slot[1].value
                      /\ get_mut(component_set, id) = slot[1].value
                      /\ slot[1].value \in Values
            /\ ~hit => /\ get(component_set, id) = None
                       /\ get_mut(component_set, id) = None

\* Slot 0 holds an entry of generation 1 and slot 1 is empty: the id of
\* generation 1 reads the value, the stale id and the id of the empty slot
\* read absent.
C22_Witness ==
    /\ component_set[0] # NoEntry
    /\ component_set[0][1].generation = 1
    /\ component_set[1] = NoEntry
    /\ get(component_set, EntityId(0, 1)) \in Values
    /\ get_mut(component_set, EntityId(0, 1)) \in Values
    /\ get(component_set, EntityId(0, 0)) = None
    /\ get_mut(component_set, EntityId(1, 0)) = None

\* A kind for which EntityComponentSystem::new registers no store.
UnregisteredKind == "Tag"

\* has_component agrees with get on every registered store and is false
\* for an unregistered kind.
HasComponentAgrees(comps) ==
    /\ \A id \in Ids :
          /\ \A kind \in Kinds :
                has_component(comps, kind, id) <=> get(comps[kind], id) # None
          /\ ~has_component(comps, UnregisteredKind, id)

\* C23: has_component(K, id) is true iff get(id) on the store of kind K
\* returns a value, false for a kind without a store, and the steps that
\* only test membership with it change nothing of the World.
C23_HasComponent ==
    [][/\ HasComponentAgrees(components)
       /\ HasComponentAgrees(components')
       /\ (RemoveEntitiesFromSystems \/ AddEntitiesToSystems) =>
             UNCHANGED << entity_allocator, ecs_vars >>]_vars

\* Membership was tested in a tick that recycled index 0: the live id has a
\* Transform, the destroyed id of the same index has none.
C23_Witness ==
    /\ pc = "run_systems"
    /\ EntityId(0, 0) \in freed
    /\ EntityId(0, 1) \in Range(new_entities)
    /\ has_component(components, "Transform", EntityId(0, 1))
    /\ ~has_component(components, "Transform", EntityId(0, 0))
    /\ components["Transform"][0] # NoEntry

\* C24: every non-empty entry of every component store carries the index
\* and generation of an id that is in the allocator's live set.
C24_NoOrphanComponents ==
    \A kind \in Kinds :
        \A i \in DOMAIN components[kind] :
            components[kind][i] # NoEntry =>
                EntityId(i, components[kind][i][1].generation) \in active

\* Of two entities with components the first was destroyed: its slots are
\* empty, the other still has its Transform.
C24_Witness ==
    /\ pc = "idle"
    /\ EntityId(0, 0) \in freed
    /\ EntityId(0, 0) \in systems[2]
    /\ \A kind \in Kinds : components[kind][0] = NoEntry
    /\ EntityId(1, 0) \in active
    /\ has_component(components, "Transform", EntityId(1, 0))

\* The borrow events of the step of the tick that the World is about to
\* take.
TickBorrows ==
    CASE pc = "destroy_entities" /\ entities_to_destroy # << >> ->
           IF Head(entities_to_destroy) \in active
           THEN destroy_entity_borrows ELSE << >>
      [] pc = "destroy_entities" /\ entities_to_destroy = << >> ->
           membership_borrows(components, destroyed_entities, 1)
      [] pc = "create_entities" /\ entities_to_create # << >> ->
           IF prefabs[Head(entities_to_create)].object
           THEN create_entity_borrows(prefabs[Head(entities_to_create)], 1)
           ELSE << >>
      [] pc = "create_entities" /\ entities_to_create = << >> ->
           membership_borrows(components, new_entities, 1)
      [] pc = "run_systems" /\ next_system = 1 -> ControlSystem_run_borrows
      [] pc = "run_systems" /\ next_system = 2 ->
           RenderSystem_render_borrows(components, cameras)
      [] OTHER -> << >>

\* C25: no step of a tick (destroy_entities, create_entities, membership
\* testing, ControlSystem::run, RenderSystem::run) borrows a store that is
\* mutably borrowed or mutably borrows a store that is borrowed, and each
\* step ends with every borrow dropped.
C25_BorrowDiscipline ==
    LET r == RefCell_run(NoBorrows, TickBorrows, 1)
    IN  ~r.conflict /\ r.cells = NoBorrows

\* The RenderSystem is about to run with a camera that resolves: it will
\* hold Refs of the Camera, Transform and Mesh stores together, after the
\* ControlSystem held its two RefMuts on a non-empty matching set.
C25_Witness ==
    /\ pc = "run_systems"
    /\ next_system = 2
    /\ systems[1] # {}
    /\ \E c \in cameras : get(components["Camera"], c) # None
    /\ Len(TickBorrows) >= 6

\* The panics that the drain phases of a tick can raise.
FatalConditions == {"capacity", "not_live", "schema"}

\* C26: a panic is raised only inside a drain phase and is one of
\* capacity-exceeded, not-live or schema error; once it is raised the run
\* takes no further step: no system runs in that tick and no later tick
\* starts.
C26_FatalEndsRun ==
    [][/\ (panic = NoPanic /\ panic' # NoPanic) =>
             /\ pc \in {"destroy_entities", "create_entities"}
             /\ pc' = pc
             /\ panic' \in FatalConditions
             /\ UNCHANGED << systems, next_system >>
       /\ panic # NoPanic =>
             /\ pc \in {"destroy_entities", "create_entities"}
             /\ pc' = pc
             /\ ~RunSystem
             /\ ~RunBegin
             /\ UNCHANGED << components, systems, next_system >>]_vars

\* The allocator refused a creation for capacity with prefabs still queued:
\* the tick stays in its creation phase.
C26_Witness ==
    /\ panic = "capacity"
    /\ pc = "create_entities"
    /\ Cardinality(active) = max_size
    /\ entities_to_create # << >>

\* C27: while the systems of a tick run, the allocator's live set and every
\* matching set stay as they are; the live set and the matching sets change
\* only in the drain phases of a tick.
C27_MidTickStability ==
    [][/\ pc = "run_systems" =>
             /\ entity_allocator'.active_entities = active
             /\ systems' = systems
       /\ entity_allocator'.active_entities # active =>
             pc \in {"destroy_entities", "create_entities"}
       /\ systems' # systems =>
             pc \in {"destroy_entities", "create_entities"}]_vars

\* The first system has run on a non-empty matching set in a tick that
\* destroyed a member of it and created an entity.
C27_Witness ==
    /\ pc = "run_systems"
    /\ next_system = 2
    /\ \E e \in Range(destroyed_entities) : e \in systems[1]
    /\ \E e \in Range(new_entities) : e \in systems[1] /\ e \in active

\* C28: deallocate puts the freed index at the end of the free list, and
\* allocate with a non-empty free list reuses the index at its end, the one
\* freed most recently, and takes only that one off the list.
C28_FreeListLifo ==
    [][/\ \A id \in AnyIds : (Deallocate(id) /\ panic' = NoPanic) =>
             /\ Len(entity_allocator'.free) = Len(entity_allocator.free) + 1
             /\ entity_allocator'.free[Len(entity_allocator'.free)]
                    = id.index
             /\ SubSeq(entity_allocator'.free, 1,
                       Len(entity_allocator.free)) = entity_allocator.free
       /\ (Allocate /\ entity_allocator.free # << >>) =>
             LET free == entity_allocator.free
             IN  /\ \A id \in entity_allocator'.active_entities \ active :
                       id.index = free[Len(free)]
                 /\ entity_allocator'.active_entities # active
                 /\ entity_allocator'.free
                        = SubSeq(free, 1, Len(free) - 1)]_vars

\* Indices 0 and 1 were both free; index 1 was taken again and index 0
\* still waits.
C28_Witness ==
    /\ freed = {EntityId(0, 0), EntityId(1, 0)}
    /\ active = {EntityId(1, 1)}
    /\ entity_allocator.free = << 0 >>

\* C29: every id the allocator has issued has an index below max_size, no
\* more than max_size indices were ever issued, and each such index is a
\* slot of every store of a World built with the same max_entities.
C29_IndexInRange ==
    /\ \A id \in issued :
          /\ id.index < max_size
          /\ \A kind \in Kinds : id.index \in DOMAIN components[kind]
    /\ IndicesIssued <= max_size
    /\ Len(entity_allocator.entries) <= max_size

\* Every index was issued, the topmost one more than once.
C29_Witness ==
    /\ IndicesIssued = max_size
    /\ \E id \in issued : id.index = max_size - 1 /\ id.generation > 0
    /\ \A kind \in Kinds : (max_size - 1) \in DOMAIN components[kind]

\* C30: allocate never panics with "Allocated an already existing
\* generational index": in every state the id that add_new_entry or
\* reuse_entry would produce is not in the live set.
C30_NoDuplicateInsert ==
    /\ panic # "duplicate"
    /\ LET r == IF entity_allocator.free = << >>
                THEN add_new_entry(entity_allocator)
                ELSE reuse_entry(entity_allocator)
       IN  r.panic = NoPanic => r.id \notin active

\* With one id live and its neighbour's index on the free list, the next
\* allocate recycles an index whose earlier generation was live before.
C30_Witness ==
    /\ panic = NoPanic
    /\ entity_allocator.free = << 1 >>
    /\ active = {EntityId(0, 1)}
    /\ freed = {EntityId(0, 0), EntityId(1, 0)}

\* C31: a store always has exactly max_size slots, and a set or clear
\* changes at most the slot at the index of its id: every other slot keeps
\* its entry.
C31_NoCompaction ==
    [][/\ DOMAIN component_set = 0 .. (max_size - 1)
       /\ DOMAIN component_set' = 0 .. (max_size - 1)
       /\ \A i \in DOMAIN component_set :
             component_set'[i] # component_set[i] =>
                 /\ lastset'[i] # lastset[i]
                 /\ \A j \in DOMAIN component_set :
                       j # i => component_set'[j] = component_set[j]]_vars

\* Slot 0 was set and then cleared, slot 1 was set: slot 1 still holds its
\* entry and slot 0 is empty.
C31_Witness ==
    /\ lastset[0] = NoEntry
    /\ PrevSetWith(EntityId(0, 0))
    /\ component_set[0] = NoEntry
    /\ LastSetWith(EntityId(1, 1))
    /\ get(component_set, EntityId(1, 1)) = LastSetValue(1)

\* C32: whenever the systems of a tick run, every live entity that
\* satisfies a system's is_system_entity is in that system's matching set.
C32_MembershipComplete ==
    pc = "run_systems" =>
        \A e \in active :
            \A index \in SystemIndexes :
                is_system_entity(index, components, e) => e \in systems[index]

\* The systems run over a ControlSystem member of an earlier tick and an
\* entity of this tick that only the RenderSystem takes.
C32_Witness ==
    /\ pc = "run_systems"
    /\ \E e \in active \ Range(new_entities) :
          is_system_entity(1, components, e) /\ e \in systems[1]
    /\ \E n \in Range(new_entities) :
          /\ is_system_entity(2, components, n)
          /\ ~is_system_entity(1, components, n)
          /\ n \in systems[2] \ systems[1]

\* Every id of a matching set that is not live reads absent in every store.
DeadMembersAbsent(sys, comps, live) ==
    \A index \in 1 .. Len(sys) :
        \A e \in sys[index] \ live :
            \A kind \in Kinds :
                get(comps[kind], e) = None /\ get_mut(comps[kind], e) = None

\* C33: an id of a matching set that is not in the live set reads absent in
\* every store, and a step of the systems changes a slot only when a live
\* member of the ControlSystem's set with Transform and Controller sits at
\* that index.
C33_NoActionOnDead ==
    [][/\ DeadMembersAbsent(systems, components, active)
       /\ DeadMembersAbsent(systems', components',
                            entity_allocator'.active_entities)
       /\ pc = "run_systems" =>
             \A kind \in Kinds :
                \A i \in DOMAIN components[kind] :
                   components'[kind][i] # components[kind][i] =>
                       /\ next_system = 1
                       /\ \E e \in systems[1] \cap active :
                             /\ e.index = i
                             /\ is_system_entity(1, components, e)]_vars

\* The ControlSystem has run over a destroyed id and the live entity on the
\* same index: the live one was moved, the destroyed one reads absent.
C33_Witness ==
    /\ pc = "run_systems"
    /\ next_system = 2
    /\ {EntityId(0, 0), EntityId(0, 1)} \subseteq systems[1]
    /\ EntityId(0, 0) \notin active
    /\ get(components["Transform"], EntityId(0, 1)) = Moved
    /\ get(components["Transform"], EntityId(0, 0)) = None

\* C34: every id of the World's camera set is a live entity that has a
\* Camera component.
C34_CameraConsistency ==
    \A c \in cameras :
        c \in active /\ has_component(components, "Camera", c)

\* C35: when destroy_entities meets an id that is not live while a live
\* entity of another generation holds its index, the destroy fails with
\* not-live and the live entity keeps every component it had.
C35_StaleDestroyHarmless ==
    [][DestroyEntity =>
         LET entity == Head(entities_to_destroy)
         IN  \A n \in active :
                (entity \notin active /\ n.index = entity.index) =>
                    /\ panic' = "not_live"
                    /\ n \in entity_allocator'.active_entities
                    /\ \A kind \in Kinds :
                          /\ has_component(components', kind, n)
                                 <=> has_component(components, kind, n)
                          /\ get(components'[kind], n)
                                 = get(components[kind], n)]_vars

\* The destroy of a stale id was refused while the live entity on its index
\* has Transform, Controller and Mesh.
C35_Witness ==
    /\ panic = "not_live"
    /\ pc = "destroy_entities"
    /\ culprit \in freed
    /\ \E n \in active :
          /\ n.index = culprit.index
          /\ has_component(components, "Transform", n)
          /\ has_component(components, "Controller", n)
          /\ has_component(components, "Mesh", n)

\* C36: after any sequence of successful allocate and deallocate calls,
\* allocate succeeds exactly when fewer than max_size ids are live, and it
\* fails with capacity-exceeded otherwise; an allocate on a non-empty free
\* list never fails.
C36_AllocateIffRoom ==
    [][Allocate =>
         /\ (panic' = NoPanic) <=> (Cardinality(active) < max_size)
         /\ (panic' # NoPanic) => panic' = "capacity"
         /\ entity_allocator.free # << >> => panic' = NoPanic
         /\ (panic' = NoPanic) =>
                Cardinality(entity_allocator'.active_entities)
                    = Cardinality(active) + 1]_vars

\* After deallocations and recycling allocations the allocator was full
\* again, with a recycled id live, and the next allocate was refused.
C36_Witness ==
    /\ panic = "capacity"
    /\ freed # {}
    /\ Cardinality(active) = max_size
    /\ \E e \in active : e.generation > 0

\* C37: in every reachable allocator state the free list holds no index
\* twice, no index on the free list is the index of a live id, and the
\* number of live ids plus the length of the free list equals entries.len().
C37_Bookkeeping ==
    LET free == entity_allocator.free
    IN  /\ \A i, j \in DOMAIN free : i # j => free[i] # free[j]
        /\ \A i \in DOMAIN free : \A e \in active : e.index # free[i]
        /\ Cardinality(active) + Len(free) = Len(entity_allocator.entries)

\* Every index was issued, one is on the free list after having been
\* recycled, and another is live.
C37_Witness ==
    /\ panic = NoPanic
    /\ Len(entity_allocator.entries) = max_size
    /\ Len(entity_allocator.free) = 1
    /\ entity_allocator.entries[entity_allocator.free[1] + 1] > 0
    /\ active # {}

\* C38: a deallocate that fails with not-live leaves the allocator as it
\* was: the same live set, the same free list and the same generation in
\* every slot.
C38_FailedDeallocateNoChange ==
    [][(panic = NoPanic /\ panic' = "not_live") =>
         /\ entity_allocator'.active_entities = active
         /\ entity_allocator'.free = entity_allocator.free
         /\ entity_allocator'.entries = entity_allocator.entries]_vars

\* deallocate was refused for an id that allocate never returned, on an
\* allocator that has live ids and a non-empty free list.
C38_Witness ==
    /\ panic = "not_live"
    /\ culprit \notin issued
    /\ active # {}
    /\ entity_allocator.free # << >>

\* C39: absent a fatal error, a tick consumes both queues before its systems
\* run. The ids destroyed so far followed by the destroy queue, and the
\* number of entities created so far plus the length of the create queue,
\* stay what they were when the tick began; so when the systems start both
\* queues are empty, every prefab queued before the tick has become a
\* distinct live entity, and every id queued for destruction is not live.
C39_QueuesConsumed ==
    [][panic' = NoPanic =>
         /\ RunBegin => destroyed_entities' = << >> /\ new_entities' = << >>
         /\ pc \in {"destroy_entities", "create_entities"} =>
               /\ destroyed_entities' \o entities_to_destroy'
                      = destroyed_entities \o entities_to_destroy
               /\ Len(new_entities') + Len(entities_to_create')
                      = Len(new_entities) + Len(entities_to_create)
         /\ pc' = "run_systems" =>
               /\ entities_to_create' = << >>
               /\ entities_to_destroy' = << >>
               /\ Range(new_entities')
                      \subseteq entity_allocator'.active_entities
               /\ Cardinality(Range(new_entities')) = Len(new_entities')
               /\ Range(destroyed_entities')
                      \cap entity_allocator'.active_entities = {}]_vars

\* The systems of a tick are about to run after the tick destroyed one
\* entity and created two, one of them on the index of the destroyed one.
C39_Witness ==
    /\ panic = NoPanic
    /\ pc = "run_systems"
    /\ next_system = 1
    /\ Len(destroyed_entities) = 1
    /\ Len(new_entities) = 2
    /\ new_entities[1].index = destroyed_entities[1].index
    /\ entities_to_create = << >>
    /\ entities_to_destroy = << >>

====
